---- MODULE Spec2Model ----
(***************************************************************************)
(* kitchen.text.utf8: width-aware processing of UTF-8 byte strings.        *)
(*                                                                         *)
(* Byte strings are sequences of integers 0..255.  The generator           *)
(* _utf8_iter_ucs is a state machine over the position of its byte         *)
(* iterator; the pure functions built on it (utf8_width, utf8_width_chop,  *)
(* utf8_width_fill, _utf8_width_le) are operators applied by call actions; *)
(* utf8_text_wrap is a state machine over its loop on the input lines.     *)
(***************************************************************************)
EXTENDS Integers, Sequences, FiniteSets

VARIABLES
    msg,                \* the byte string handed to the decoder or to a call
    pos,                \* _utf8_iter_ucs: bytes taken from uiter so far
    out,                \* _utf8_iter_ucs: the (ucs, bytes) pairs yielded so far
    cuts,               \* history: the value of pos after each yield
    gen,                \* _utf8_iter_ucs: "running", "returned" ("idle": not in use)
    call,               \* the last call of a pure function: its arguments and result
    text,               \* utf8_text_wrap: argument text
    width,              \* utf8_text_wrap: argument width
    initial_indent,     \* utf8_text_wrap: argument initial_indent
    subsequent_indent,  \* utf8_text_wrap: argument subsequent_indent
    lines,              \* utf8_text_wrap: the input lines (line 476)
    li,                 \* utf8_text_wrap: number of input lines already processed
    ret,                \* utf8_text_wrap: output lines so far
    indent,             \* utf8_text_wrap: current indent / buffered line
    wrap_last,          \* utf8_text_wrap: previous input line was word-wrapped
    csab,               \* utf8_text_wrap: spaces at beginning of the current line
    cspc_indent,        \* utf8_text_wrap: list indent of the current line
    pc                  \* utf8_text_wrap: "loop", "done" ("idle": not in use)

ucsVars == <<msg, pos, out, cuts, gen>>
wrapVars == <<text, width, initial_indent, subsequent_indent, lines, li, ret,
              indent, wrap_last, csab, cspc_indent, pc>>
vars == <<msg, pos, out, cuts, gen, call, text, width, initial_indent,
          subsequent_indent, lines, li, ret, indent, wrap_last, csab,
          cspc_indent, pc>>

(***************************************************************************)
(* Bounds of the model.                                                    *)
(***************************************************************************)
\* a decoder input is the concatenation of at most MaxFrags fragments
MaxFrags == 2
\* chop limits and fill targets range over 0..MaxChop
MaxChop == 3
\* a wrapped text has at most MaxLines input lines
MaxLines == 2

(***************************************************************************)
(* Python values and integer operators.                                    *)
(***************************************************************************)
\* Python's None: the invalid marker of a decode result, an absent chop limit
None == -1

RECURSIVE BitAnd(_, _)
\* a & b
BitAnd(a, b) ==
    IF a = 0 \/ b = 0 THEN 0
    ELSE 2 * BitAnd(a \div 2, b \div 2) + (a % 2) * (b % 2)

RECURSIVE BitOr(_, _)
\* a | b
BitOr(a, b) ==
    IF a = 0 THEN b
    ELSE IF b = 0 THEN a
    ELSE 2 * BitOr(a \div 2, b \div 2) + (IF (a % 2) + (b % 2) > 0 THEN 1 ELSE 0)

\* a << k
Shl(a, k) == a * (2 ^ k)

\* s[i] with Python's zero-based index
At(s, i) == s[i + 1]

\* s[:n]
Take(s, n) == SubSeq(s, 1, n)

\* s[n:]
Drop(s, n) == SubSeq(s, n + 1, Len(s))

RECURSIVE Spaces(_)
\* " " * n
Spaces(n) == IF n <= 0 THEN <<>> ELSE <<32>> \o Spaces(n - 1)

(***************************************************************************)
(* _utf8_bisearch, _combining, _utf8_ucp_width                             *)
(***************************************************************************)
RECURSIVE BisearchLoop(_, _, _, _)
\* while max >= min: ...
BisearchLoop(ucs, table, min, max) ==
    IF max < min THEN FALSE
    ELSE LET mid == (min + max) \div 2
         IN  IF ucs > At(table, mid)[2] THEN BisearchLoop(ucs, table, mid + 1, max)
             ELSE IF ucs < At(table, mid)[1] THEN BisearchLoop(ucs, table, min, mid - 1)
             ELSE TRUE

_utf8_bisearch(ucs, table) ==
    LET min == 0
        max == Len(table) - 1
    IN  IF ucs < At(table, min)[1] \/ ucs > At(table, max)[2] THEN FALSE
        ELSE BisearchLoop(ucs, table, min, max)

\* sorted list of non-overlapping intervals of non-spacing characters
_combining ==
    <<
       <<\H0300, \H036F>>, <<\H0483, \H0486>>, <<\H0488, \H0489>>, <<\H0591, \H05BD>>,
       <<\H05BF, \H05BF>>, <<\H05C1, \H05C2>>, <<\H05C4, \H05C5>>, <<\H05C7, \H05C7>>,
       <<\H0600, \H0603>>, <<\H0610, \H0615>>, <<\H064B, \H065E>>, <<\H0670, \H0670>>,
       <<\H06D6, \H06E4>>, <<\H06E7, \H06E8>>, <<\H06EA, \H06ED>>, <<\H070F, \H070F>>,
       <<\H0711, \H0711>>, <<\H0730, \H074A>>, <<\H07A6, \H07B0>>, <<\H07EB, \H07F3>>,
       <<\H0901, \H0902>>, <<\H093C, \H093C>>, <<\H0941, \H0948>>, <<\H094D, \H094D>>,
       <<\H0951, \H0954>>, <<\H0962, \H0963>>, <<\H0981, \H0981>>, <<\H09BC, \H09BC>>,
       <<\H09C1, \H09C4>>, <<\H09CD, \H09CD>>, <<\H09E2, \H09E3>>, <<\H0A01, \H0A02>>,
       <<\H0A3C, \H0A3C>>, <<\H0A41, \H0A42>>, <<\H0A47, \H0A48>>, <<\H0A4B, \H0A4D>>,
       <<\H0A70, \H0A71>>, <<\H0A81, \H0A82>>, <<\H0ABC, \H0ABC>>, <<\H0AC1, \H0AC5>>,
       <<\H0AC7, \H0AC8>>, <<\H0ACD, \H0ACD>>, <<\H0AE2, \H0AE3>>, <<\H0B01, \H0B01>>,
       <<\H0B3C, \H0B3C>>, <<\H0B3F, \H0B3F>>, <<\H0B41, \H0B43>>, <<\H0B4D, \H0B4D>>,
       <<\H0B56, \H0B56>>, <<\H0B82, \H0B82>>, <<\H0BC0, \H0BC0>>, <<\H0BCD, \H0BCD>>,
       <<\H0C3E, \H0C40>>, <<\H0C46, \H0C48>>, <<\H0C4A, \H0C4D>>, <<\H0C55, \H0C56>>,
       <<\H0CBC, \H0CBC>>, <<\H0CBF, \H0CBF>>, <<\H0CC6, \H0CC6>>, <<\H0CCC, \H0CCD>>,
       <<\H0CE2, \H0CE3>>, <<\H0D41, \H0D43>>, <<\H0D4D, \H0D4D>>, <<\H0DCA, \H0DCA>>,
       <<\H0DD2, \H0DD4>>, <<\H0DD6, \H0DD6>>, <<\H0E31, \H0E31>>, <<\H0E34, \H0E3A>>,
       <<\H0E47, \H0E4E>>, <<\H0EB1, \H0EB1>>, <<\H0EB4, \H0EB9>>, <<\H0EBB, \H0EBC>>,
       <<\H0EC8, \H0ECD>>, <<\H0F18, \H0F19>>, <<\H0F35, \H0F35>>, <<\H0F37, \H0F37>>,
       <<\H0F39, \H0F39>>, <<\H0F71, \H0F7E>>, <<\H0F80, \H0F84>>, <<\H0F86, \H0F87>>,
       <<\H0F90, \H0F97>>, <<\H0F99, \H0FBC>>, <<\H0FC6, \H0FC6>>, <<\H102D, \H1030>>,
       <<\H1032, \H1032>>, <<\H1036, \H1037>>, <<\H1039, \H1039>>, <<\H1058, \H1059>>,
       <<\H1160, \H11FF>>, <<\H135F, \H135F>>, <<\H1712, \H1714>>, <<\H1732, \H1734>>,
       <<\H1752, \H1753>>, <<\H1772, \H1773>>, <<\H17B4, \H17B5>>, <<\H17B7, \H17BD>>,
       <<\H17C6, \H17C6>>, <<\H17C9, \H17D3>>, <<\H17DD, \H17DD>>, <<\H180B, \H180D>>,
       <<\H18A9, \H18A9>>, <<\H1920, \H1922>>, <<\H1927, \H1928>>, <<\H1932, \H1932>>,
       <<\H1939, \H193B>>, <<\H1A17, \H1A18>>, <<\H1B00, \H1B03>>, <<\H1B34, \H1B34>>,
       <<\H1B36, \H1B3A>>, <<\H1B3C, \H1B3C>>, <<\H1B42, \H1B42>>, <<\H1B6B, \H1B73>>,
       <<\H1DC0, \H1DCA>>, <<\H1DFE, \H1DFF>>, <<\H200B, \H200F>>, <<\H202A, \H202E>>,
       <<\H2060, \H2063>>, <<\H206A, \H206F>>, <<\H20D0, \H20EF>>, <<\H302A, \H302F>>,
       <<\H3099, \H309A>>, <<\HA806, \HA806>>, <<\HA80B, \HA80B>>, <<\HA825, \HA826>>,
       <<\HFB1E, \HFB1E>>, <<\HFE00, \HFE0F>>, <<\HFE20, \HFE23>>, <<\HFEFF, \HFEFF>>,
       <<\HFFF9, \HFFFB>>, <<\H10A01, \H10A03>>, <<\H10A05, \H10A06>>, <<\H10A0C, \H10A0F>>,
       <<\H10A38, \H10A3A>>, <<\H10A3F, \H10A3F>>, <<\H1D167, \H1D169>>, <<\H1D173, \H1D182>>,
       <<\H1D185, \H1D18B>>, <<\H1D1AA, \H1D1AD>>, <<\H1D242, \H1D244>>, <<\HE0001, \HE0001>>,
       <<\HE0020, \HE007F>>, <<\HE0100, \HE01EF>>
    >>

\* the wide-script test of the return statement
IsWide(ucs) ==
    /\ ucs >= \H1100
    /\ \/ ucs <= \H115F
       \/ ucs = \H2329 \/ ucs = \H232A
       \/ (ucs >= \H2E80 /\ ucs <= \HA4CF /\ ucs # \H303F)
       \/ (ucs >= \HAC00 /\ ucs <= \HD7A3)
       \/ (ucs >= \HF900 /\ ucs <= \HFAFF)
       \/ (ucs >= \HFE10 /\ ucs <= \HFE19)
       \/ (ucs >= \HFE30 /\ ucs <= \HFE6F)
       \/ (ucs >= \HFF00 /\ ucs <= \HFF60)
       \/ (ucs >= \HFFE0 /\ ucs <= \HFFE6)
       \/ (ucs >= \H20000 /\ ucs <= \H2FFFD)
       \/ (ucs >= \H30000 /\ ucs <= \H3FFFD)

_utf8_ucp_width(ucs) ==
    IF ucs = 0 THEN 0
    ELSE IF ucs < 32 \/ (ucs >= \H7F /\ ucs < \HA0) THEN -1
    ELSE IF _utf8_bisearch(ucs, _combining) THEN 0
    ELSE 1 + (IF IsWide(ucs) THEN 1 ELSE 0)

(***************************************************************************)
(* _utf8_iter_ucs: one pass of its loop, started with p bytes taken from   *)
(* uiter.  A step is [ucs, n, pos, stop]: the pair (ucs, n) yielded, the   *)
(* position of uiter afterwards, and whether the generator returns.        *)
(***************************************************************************)
Yield(ucs, n, p, stop) == [ucs |-> ucs, n |-> n, pos |-> p, stop |-> stop]

RECURSIVE ReadBytes(_, _, _, _, _)
\* for byte_count in range(byte_count, last): bytes.append(uiter.next()),
\* stopped by StopIteration (short) with byte_count the failing round
ReadBytes(m, p, bytes, byte_count, last) ==
    IF byte_count >= last
    THEN [bytes |-> bytes, pos |-> p, short |-> FALSE, byte_count |-> byte_count]
    ELSE IF p >= Len(m)
    THEN [bytes |-> bytes, pos |-> p, short |-> TRUE, byte_count |-> byte_count]
    ELSE ReadBytes(m, p + 1, Append(bytes, At(m, p)), byte_count + 1, last)

\* 0xxxxxxx
Branch1(m, byte0, p) == Yield(byte0, 1, p, FALSE)

\* variant: the two-byte branch without its overlong test
Overlong2_Never(byte0) == FALSE

\* the overlong test of the two-byte branch
Overlong2(byte0) == BitAnd(byte0, \HFE) = \HC0

Reject2(byte0, byte1) ==
    \/ BitAnd(byte1, \HC0) # \H80
    \/ Overlong2(byte0)

\* variant: the too-short case counts the byte that was not there
Branch2_ShortCountsTwo(m, byte0, p) ==
    IF p >= Len(m) THEN Yield(None, 2, p, TRUE)
    ELSE LET byte1 == At(m, p)
         IN  IF Reject2(byte0, byte1) THEN Yield(None, 2, p + 1, TRUE)
             ELSE Yield(BitOr(Shl(BitAnd(byte0, \H1F), 6), BitAnd(byte1, \H3F)),
                        2, p + 1, FALSE)

\* 110XXXXx 10xxxxxx
Branch2(m, byte0, p) ==
    IF p >= Len(m) THEN Yield(None, 1, p, TRUE)
    ELSE LET byte1 == At(m, p)
         IN  IF Reject2(byte0, byte1) THEN Yield(None, 2, p + 1, TRUE)
             ELSE Yield(BitOr(Shl(BitAnd(byte0, \H1F), 6), BitAnd(byte1, \H3F)),
                        2, p + 1, FALSE)

\* the surrogate test of the three-byte branch
Surrogate3(bytes) == At(bytes, 0) = \HED /\ BitAnd(At(bytes, 1), \HE0) = \HA0

Reject3(bytes) ==
    \/ BitAnd(At(bytes, 1), \HC0) # \H80
    \/ BitAnd(At(bytes, 2), \HC0) # \H80
    \/ (At(bytes, 0) = \HE0 /\ BitAnd(At(bytes, 1), \HE0) = \H80)
    \/ Surrogate3(bytes)
    \/ (At(bytes, 0) = \HEF /\ At(bytes, 1) = \HBF /\ BitAnd(At(bytes, 2), \HFE) = \HBE)

\* 1110XXXX 10Xxxxxx 10xxxxxx
Branch3(m, byte0, p) ==
    LET r == ReadBytes(m, p, <<byte0>>, 1, 3)
        bytes == r.bytes
    IN  IF r.short THEN Yield(None, r.byte_count, r.pos, TRUE)
        ELSE IF Reject3(bytes) THEN Yield(None, 3, r.pos, TRUE)
        ELSE Yield(BitOr(BitOr(Shl(BitAnd(At(bytes, 0), \H0F), 12),
                               Shl(BitAnd(At(bytes, 1), \H3F), 6)),
                         BitAnd(At(bytes, 2), \H3F)),
                   3, r.pos, FALSE)

Reject4(bytes) ==
    \/ BitAnd(At(bytes, 1), \HC0) # \H80
    \/ BitAnd(At(bytes, 2), \HC0) # \H80
    \/ BitAnd(At(bytes, 3), \HC0) # \H80
    \/ (At(bytes, 0) = \HF0 /\ BitAnd(At(bytes, 1), \HF0) = \H80)
    \/ (At(bytes, 0) = \HF4 /\ At(bytes, 1) > \H8F)
    \/ At(bytes, 0) > \HF4

\* 11110XXX 10XXxxxx 10xxxxxx 10xxxxxx
Branch4(m, byte0, p) ==
    LET r == ReadBytes(m, p, <<byte0>>, 1, 4)
        bytes == r.bytes
    IN  IF r.short THEN Yield(None, r.byte_count, r.pos, TRUE)
        ELSE IF Reject4(bytes) THEN Yield(None, 4, r.pos, TRUE)
        ELSE Yield(BitOr(BitOr(BitOr(Shl(BitAnd(At(bytes, 0), \H07), 18),
                                     Shl(BitAnd(At(bytes, 1), \H3F), 12)),
                               Shl(BitAnd(At(bytes, 2), \H3F), 6)),
                         BitAnd(At(bytes, 3), \H3F)),
                   4, r.pos, FALSE)

\* variant: the else branch without its return
BranchElse_Continues(m, byte0, p) == Yield(None, 1, p, FALSE)

\* else: yield (None, 1); return
BranchElse(m, byte0, p) == Yield(None, 1, p, TRUE)

IsBranch1(byte0) == byte0 < \H80
IsBranch2(byte0) == ~IsBranch1(byte0) /\ BitAnd(byte0, \HE0) = \HC0
IsBranch3(byte0) == ~IsBranch1(byte0) /\ ~IsBranch2(byte0) /\ BitAnd(byte0, \HF0) = \HE0
IsBranch4(byte0) ==
    /\ ~IsBranch1(byte0) /\ ~IsBranch2(byte0) /\ ~IsBranch3(byte0)
    /\ BitAnd(byte0, \HF8) = \HF0

\* the body of "for byte0 in uiter" when uiter has delivered p bytes (p < len)
UcsStep(m, p) ==
    LET byte0 == At(m, p)
    IN  IF IsBranch1(byte0) THEN Branch1(m, byte0, p + 1)
        ELSE IF IsBranch2(byte0) THEN Branch2(m, byte0, p + 1)
        ELSE IF IsBranch3(byte0) THEN Branch3(m, byte0, p + 1)
        ELSE IF IsBranch4(byte0) THEN Branch4(m, byte0, p + 1)
        ELSE BranchElse(m, byte0, p + 1)

RECURSIVE IterUcs(_, _)
\* everything the generator yields from position p on
IterUcs(m, p) ==
    IF p >= Len(m) THEN <<>>
    ELSE LET r == UcsStep(m, p)
         IN  <<<<r.ucs, r.n>>>> \o (IF r.stop THEN <<>> ELSE IterUcs(m, r.pos))

\* list(_utf8_iter_ucs(msg))
_utf8_iter_ucs(m) == IterUcs(m, 0)

(***************************************************************************)
(* Inputs of the decoder: concatenations of at most MaxFrags fragments.    *)
(* The fragments are the boundary encodings of every branch of the decoder *)
(* and the sequences just outside them, whole and cut short.               *)
(***************************************************************************)
Fragments ==
    { <<\H41>>,                       \* "A"
      <<\H01>>,                       \* C0 control
      <<\H7F>>,                       \* DEL, the last one-byte value
      <<\H80>>, <<\HBF>>,             \* continuation bytes on their own
      <<\HC2>>,                       \* two-byte lead, nothing after it
      <<\HC1, \H80>>,                 \* overlong two-byte form
      <<\HC2, \H80>>,                 \* U+0080
      <<\HCC, \H80>>,                 \* U+0300, combining
      <<\HDF, \HBF>>,                 \* U+07FF
      <<\HE3>>, <<\HE3, \H80>>,       \* three-byte lead, cut short
      <<\HE0, \H9F, \HBF>>,           \* overlong three-byte form
      <<\HE0, \HA0, \H80>>,           \* U+0800
      <<\HE3, \H80, \H80>>,           \* U+3000, wide
      <<\HED, \H9F, \HBF>>,           \* U+D7FF
      <<\HED, \HA0, \H80>>,           \* U+D800, surrogate
      <<\HEE, \H80, \H80>>,           \* U+E000
      <<\HEF, \HBF, \HBD>>,           \* U+FFFD
      <<\HEF, \HBF, \HBE>>,           \* U+FFFE
      <<\HEF, \HBF, \HBF>>,           \* U+FFFF
      <<\HF0, \H90, \H80>>,           \* four-byte lead, cut short
      <<\HF0, \H8F, \HBF, \HBF>>,     \* overlong four-byte form
      <<\HF0, \H90, \H80, \H80>>,     \* U+10000
      <<\HF0, \HA0, \H80, \H80>>,     \* U+20000, wide
      <<\HF4, \H8F, \HBF, \HBF>>,     \* U+10FFFF
      <<\HF4, \H90, \H80, \H80>>,     \* U+110000
      <<\HF5, \H80, \H80, \H80>>,     \* lead above 0xF4
      <<\HF8>>,                       \* no branch takes this lead
      <<\HFF>> }

RECURSIVE Concats(_, _)
\* the concatenations of at most k members of frags
Concats(frags, k) ==
    IF k = 0 THEN {<<>>}
    ELSE LET shorter == Concats(frags, k - 1)
         IN  shorter \cup {s \o f : s \in shorter, f \in frags}

\* values of the variables a specification does not use
NoCall == [op |-> "none"]
UcsIdle == msg = <<>> /\ pos = 0 /\ out = <<>> /\ cuts = <<>> /\ gen = "idle"
WrapIdle ==
    /\ text = <<>> /\ width = 0 /\ initial_indent = <<>> /\ subsequent_indent = <<>>
    /\ lines = <<>> /\ li = 0 /\ ret = <<>> /\ indent = <<>> /\ wrap_last = FALSE
    /\ csab = 0 /\ cspc_indent = 0 /\ pc = "idle"

(***************************************************************************)
(* The generator _utf8_iter_ucs(msg) as a state machine: every action is   *)
(* one pass of "for byte0 in uiter" through one branch, up to its yield.   *)
(***************************************************************************)
InitUcs ==
    /\ msg \in Concats(Fragments, MaxFrags)
    /\ pos = 0 /\ out = <<>> /\ cuts = <<>> /\ gen = "running"
    /\ call = NoCall
    /\ WrapIdle

Emit(r) ==
    /\ out' = Append(out, <<r.ucs, r.n>>)
    /\ pos' = r.pos
    /\ cuts' = Append(cuts, r.pos)
    /\ gen' = IF r.stop THEN "returned" ELSE "running"
    /\ UNCHANGED <<msg, call>>
    /\ UNCHANGED wrapVars

Running == gen = "running" /\ pos < Len(msg)

Ucs1 == Running /\ IsBranch1(At(msg, pos)) /\ Emit(Branch1(msg, At(msg, pos), pos + 1))

Ucs2 == Running /\ IsBranch2(At(msg, pos)) /\ Emit(Branch2(msg, At(msg, pos), pos + 1))

Ucs3 == Running /\ IsBranch3(At(msg, pos)) /\ Emit(Branch3(msg, At(msg, pos), pos + 1))

Ucs4 == Running /\ IsBranch4(At(msg, pos)) /\ Emit(Branch4(msg, At(msg, pos), pos + 1))

UcsElse ==
    /\ Running
    /\ LET byte0 == At(msg, pos)
       IN  /\ ~IsBranch1(byte0) /\ ~IsBranch2(byte0)
           /\ ~IsBranch3(byte0) /\ ~IsBranch4(byte0)
           /\ Emit(BranchElse(msg, byte0, pos + 1))

\* uiter is exhausted: the for loop ends and the generator finishes
UcsEnd ==
    /\ gen = "running" /\ pos >= Len(msg)
    /\ gen' = "returned"
    /\ UNCHANGED <<msg, pos, out, cuts, call>>
    /\ UNCHANGED wrapVars

NextUcs == Ucs1 \/ Ucs2 \/ Ucs3 \/ Ucs4 \/ UcsElse \/ UcsEnd

SpecUcs == InitUcs /\ [][NextUcs]_vars

(***************************************************************************)
(* utf8_width, utf8_width_chop, utf8_width_fill, _utf8_width_le            *)
(***************************************************************************)
\* what a result adds to the width: its bytes when invalid, else its width
UnitWidth(ucs, bytes) == IF ucs = None THEN bytes ELSE _utf8_ucp_width(ucs)

RECURSIVE WidthLoop(_, _, _)
\* for (ucs, bytes) in _utf8_iter_ucs(msg): ret += ...
WidthLoop(rs, k, acc) ==
    IF k > Len(rs) THEN acc
    ELSE WidthLoop(rs, k + 1, acc + UnitWidth(rs[k][1], rs[k][2]))

utf8_width(m) == WidthLoop(_utf8_iter_ucs(m), 1, 0)

\* variant: the test leaves out the width of the next unit
Exceeds_IgnoresNext(acc, w, chop) == chop # None /\ acc > chop

\* if chop is not None and (ret + width) > chop
Exceeds(acc, w, chop) == chop # None /\ (acc + w) > chop

\* variant: the cut is one byte late
ChopCut_OneMore(m, msg_bytes) == Take(m, msg_bytes + 1)

\* msg = msg[:msg_bytes]
ChopCut(m, msg_bytes) == Take(m, msg_bytes)

RECURSIVE ChopLoop(_, _, _, _, _, _)

\* one pass of the for loop of utf8_width_chop for result k of width w
ChopStep(m, rs, k, chop, acc, msg_bytes, w) ==
    IF Exceeds(acc, w, chop) THEN <<acc, ChopCut(m, msg_bytes)>>
    ELSE ChopLoop(m, rs, k + 1, chop, acc + w, msg_bytes + rs[k][2])

\* the for loop of utf8_width_chop; a pair (ret, msg) as the function returns
ChopLoop(m, rs, k, chop, acc, msg_bytes) ==
    IF k > Len(rs) THEN <<acc, m>>
    ELSE ChopStep(m, rs, k, chop, acc, msg_bytes, UnitWidth(rs[k][1], rs[k][2]))

\* utf8_width_chop, given full = utf8_width(msg)
ChopGiven(m, chop, full) ==
    IF chop = None \/ full <= chop THEN <<full, m>>
    ELSE ChopLoop(m, _utf8_iter_ucs(m), 1, chop, 0, 0)

utf8_width_chop(m, chop) == ChopGiven(m, chop, utf8_width(m))

\* variant: the padding is computed from the byte length
FillExtra_ByLen(fill, w, m) == Spaces(fill - Len(m))

\* extra = " " * (fill - width)
FillExtra(fill, w, m) == Spaces(fill - w)

\* utf8_width_fill after "width, msg = utf8_width_chop(msg, chop)"
FillGiven(w, body, fill, left, prefix, suffix) ==
    IF w >= fill
    THEN (IF prefix # <<>> \/ suffix # <<>> THEN prefix \o body \o suffix ELSE body)
    ELSE IF left THEN prefix \o body \o suffix \o FillExtra(fill, w, body)
    ELSE FillExtra(fill, w, body) \o prefix \o body \o suffix

\* the pair returned by utf8_width_chop, unpacked
FillChopped(chopped, fill, left, prefix, suffix) ==
    FillGiven(chopped[1], chopped[2], fill, left, prefix, suffix)

utf8_width_fill(m, fill, chop, left, prefix, suffix) ==
    FillChopped(utf8_width_chop(m, chop), fill, left, prefix, suffix)

\* variant: only the first fragment is measured
LenSum_FirstOnly(args, k) == IF Len(args) = 0 THEN 0 ELSE Len(args[1])

RECURSIVE LenSum(_, _)
\* for arg in args: ret += len(arg)
LenSum(args, k) == IF k > Len(args) THEN 0 ELSE Len(args[k]) + LenSum(args, k + 1)

RECURSIVE WidthSum(_, _)
\* for arg in args: ret += utf8_width(arg)
WidthSum(args, k) ==
    IF k > Len(args) THEN 0 ELSE utf8_width(args[k]) + WidthSum(args, k + 1)

_utf8_width_le(w, args) ==
    IF LenSum(args, 1) <= w THEN TRUE
    ELSE WidthSum(args, 1) <= w

(***************************************************************************)
(* Calls of the pure functions on a byte string.                           *)
(***************************************************************************)
WidthFragments ==
    { <<\H41>>, <<\H01>>, <<\HCC, \H80>>, <<\HE3, \H80, \H80>>,
      <<\HF0, \HA0, \H80, \H80>>, <<\H80>>, <<\HC2>>, <<\HC1, \H80>>,
      <<\HE3, \H80>>, <<\HF0, \H90, \H80>>, <<\HFF>> }

\* fill targets and width budgets
MaxFill == MaxChop + 2
MaxBudget == 2 * MaxChop + 2

\* further fragments handed to _utf8_width_le after msg
MoreArgs == {<<>>, <<<<\H41>>>>, <<<<\HE3, \H80, \H80>>, <<\H20>>>>}

InitWidth ==
    /\ msg \in Concats(WidthFragments, MaxFrags)
    /\ pos = 0 /\ out = <<>> /\ cuts = <<>> /\ gen = "idle"
    /\ call = NoCall
    /\ WrapIdle

Fresh == gen = "idle" /\ pc = "idle" /\ call = NoCall

Returns(c) ==
    /\ call' = c
    /\ UNCHANGED ucsVars
    /\ UNCHANGED wrapVars

Call_utf8_width ==
    /\ Fresh
    /\ Returns([op |-> "utf8_width", msg |-> msg, ret |-> utf8_width(msg)])

Call_utf8_width_chop ==
    /\ Fresh
    /\ \E chop \in {None} \cup (0..MaxChop) :
          Returns([op |-> "utf8_width_chop", msg |-> msg, chop |-> chop,
                   ret |-> utf8_width_chop(msg, chop)])

Call_utf8_width_fill ==
    /\ Fresh
    /\ \E fill \in 0..MaxFill, chop \in {None, 1}, left \in BOOLEAN :
          Returns([op |-> "utf8_width_fill", msg |-> msg, fill |-> fill,
                   chop |-> chop, left |-> left, prefix |-> <<>>, suffix |-> <<>>,
                   ret |-> utf8_width_fill(msg, fill, chop, left, <<>>, <<>>)])

Call_utf8_width_le ==
    /\ Fresh
    /\ \E w \in 0..MaxBudget, more \in MoreArgs :
          Returns([op |-> "_utf8_width_le", width |-> w, args |-> <<msg>> \o more,
                   ret |-> _utf8_width_le(w, <<msg>> \o more)])

NextWidth ==
    Call_utf8_width \/ Call_utf8_width_chop \/ Call_utf8_width_fill \/ Call_utf8_width_le

SpecWidth == InitWidth /\ [][NextWidth]_vars

(***************************************************************************)
(* String methods used by utf8_text_wrap.                                  *)
(***************************************************************************)
SP == 32
NL == 10
TAB == 9

RECURSIVE rstrip(_, _)
\* s.rstrip(ch)
rstrip(s, ch) ==
    IF s # <<>> /\ s[Len(s)] = ch THEN rstrip(Take(s, Len(s) - 1), ch) ELSE s

RECURSIVE lstrip(_, _)
\* s.lstrip(ch)
lstrip(s, ch) == IF s # <<>> /\ s[1] = ch THEN lstrip(Tail(s), ch) ELSE s

RECURSIVE SplitFrom(_, _, _, _)
\* s.split(ch), scanning from index i with the piece cur under way
SplitFrom(s, ch, i, cur) ==
    IF i > Len(s) THEN <<cur>>
    ELSE IF s[i] = ch THEN <<cur>> \o SplitFrom(s, ch, i + 1, <<>>)
    ELSE SplitFrom(s, ch, i + 1, Append(cur, s[i]))

split(s, ch) == SplitFrom(s, ch, 1, <<>>)

RECURSIVE ExpandTabs(_)
\* s.replace('\t', ' ' * 8)
ExpandTabs(s) ==
    IF s = <<>> THEN <<>>
    ELSE (IF s[1] = TAB THEN Spaces(8) ELSE <<s[1]>>) \o ExpandTabs(Tail(s))

(***************************************************************************)
(* utf8_text_wrap: _indent_at_beg                                          *)
(***************************************************************************)
RECURSIVE LeadingSpaces(_)
\* the count of the for loop of _indent_at_beg
LeadingSpaces(line) ==
    IF line # <<>> /\ line[1] = SP THEN 1 + LeadingSpaces(Tail(line)) ELSE 0

\* the value of byte after that loop: 'X' for an empty line, else the byte
\* the loop stopped at, or the last byte when it ran to the end
ByteAfterLoop(line, count) ==
    IF line = <<>> THEN \H58
    ELSE IF count < Len(line) THEN At(line, count)
    ELSE line[Len(line)]

\* ("-", "*", ".", "o", '\xe2')
MarkerLeads == {\H2D, \H2A, \H2E, \H6F, \HE2}

\* ("-", "*", ".", "o", "\xe2\x80\xa2", "\xe2\x80\xa3", "\xe2\x88\x98")
ListChars ==
    { <<\H2D>>, <<\H2A>>, <<\H2E>>, <<\H6F>>,
      <<\HE2, \H80, \HA2>>, <<\HE2, \H80, \HA3>>, <<\HE2, \H88, \H98>> }

RECURSIVE _indent_at_beg(_)

\* if nxt: return count, count + 1 + nxt; else return count, 0
IndentResult(count, nxt) ==
    IF nxt # 0 THEN <<count, count + 1 + nxt>> ELSE <<count, 0>>

\* nxt = nxt[1] or nxt[0]
IndentNext(count, nxt) == IndentResult(count, IF nxt[2] # 0 THEN nxt[2] ELSE nxt[1])

\* the part of _indent_at_beg after list_chr is cut from the line
IndentMarker(line, count, list_chr) ==
    IF list_chr \in ListChars
    THEN IndentNext(count, _indent_at_beg(Drop(line, count + Len(list_chr))))
    ELSE <<count, 0>>

\* the part of _indent_at_beg after the loop that counts the leading spaces
IndentFrom(line, count) ==
    IF ByteAfterLoop(line, count) \notin MarkerLeads THEN <<count, 0>>
    ELSE IndentMarker(line, count, utf8_width_chop(Drop(line, count), 1)[2])

\* the pair (count, list indent)
_indent_at_beg(line) == IndentFrom(line, LeadingSpaces(line))

(***************************************************************************)
(* utf8_text_wrap: the body of "for line in lines"                         *)
(***************************************************************************)
\* force_nl, from the previous and the current line's classification
ForceNl(wl, lsab, lspc_indent, sab, spc_indent, linelen) ==
    \/ (wl /\ spc_indent # 0)
    \/ (wl /\ sab = linelen)
    \/ (wl /\ lspc_indent = 0 /\ sab >= 4 /\ sab # lsab)

\* lines 495-503, with wl the value of wrap_last after the forced break and
\* line the line after "if csab == len(line): line = ''"
PreludeWith(cur, force_nl, wl, line) ==
    [ ret |-> IF force_nl THEN Append(ret, rstrip(indent, SP)) ELSE ret,
      indent |-> IF force_nl THEN subsequent_indent ELSE indent,
      wrap_last |-> wl,
      csab |-> cur[1],
      cspc_indent |-> IF wl THEN cspc_indent ELSE cur[2],
      line |-> IF wl THEN lstrip(line, SP) ELSE line ]

\* lines 487-494, with cur the pair (csab, cspc_indent) of the line
PreludeForce(line, cur, force_nl) ==
    PreludeWith(cur, force_nl, wrap_last /\ ~force_nl,
                IF cur[1] = Len(line) THEN <<>> ELSE line)

\* lines 485-486, for the line stripped of trailing spaces
PreludeOf(line, cur) ==
    PreludeForce(line, cur,
                 ForceNl(wrap_last, csab, cspc_indent, cur[1], cur[2], Len(line)))

\* lines 484-503: the state after classifying the line and the forced break
Prelude(raw) == PreludeOf(rstrip(raw, SP), _indent_at_beg(rstrip(raw, SP)))

\* variant: the test is inverted
Fits_Inverted(w, ind, line) == ~_utf8_width_le(w, <<ind, line>>)

\* if _utf8_width_le(width, indent, line)
Fits(w, ind, line) == _utf8_width_le(w, <<ind, line>>)

\* the test that flushes the line buffer before a word is added
FlushBefore(w, line, word, si) ==
    /\ ~_utf8_width_le(w, <<line, word>>)
    /\ utf8_width(line) > utf8_width(si)

\* variant: the new buffer is started without subsequent_indent
FreshLine_NoIndent(si, spcs) == Spaces(spcs)

\* line = subsequent_indent + ' ' * spcs
FreshLine(si, spcs) == si \o Spaces(spcs)

RECURSIVE WordLoop(_, _, _, _, _, _, _)

\* one pass of "for word in words", flush telling whether the buffer is flushed
WordStep(words, k, line, acc, spcs, w, si, flush) ==
    WordLoop(words, k + 1,
             (IF flush THEN FreshLine(si, spcs) ELSE line) \o words[k] \o <<SP>>,
             IF flush THEN Append(acc, rstrip(line, SP)) ELSE acc,
             spcs, w, si)

\* for word in words: ...; the buffer line and the output lines afterwards
WordLoop(words, k, line, acc, spcs, w, si) ==
    IF k > Len(words) THEN [line |-> line, ret |-> acc]
    ELSE WordStep(words, k, line, acc, spcs, w, si,
                  FlushBefore(w, line, words[k], si))

\* spcs = cspc_indent; if not spcs and csab >= 4: spcs = csab
Spcs(spc_indent, sab) == IF spc_indent = 0 /\ sab >= 4 THEN sab ELSE spc_indent

(***************************************************************************)
(* utf8_text_wrap as a state machine over its input lines.                 *)
(***************************************************************************)
RECURSIVE Join(_, _)
\* sep.join(ls)
Join(ls, sep) ==
    IF ls = <<>> THEN <<>>
    ELSE IF Len(ls) = 1 THEN ls[1]
    ELSE ls[1] \o <<sep>> \o Join(Tail(ls), sep)

\* the input lines a text is made of
LineChoices ==
    { <<>>,                                             \* ""
      <<97, 97>>,                                       \* "aa"
      <<97, 32, 98, 98, 98>>,                           \* "a bbb"
      <<97, 97, 97, 97, 97, 97>>,                       \* "aaaaaa"
      <<45, 32, 97, 97, 32, 98, 98>>,                   \* "- aa bb"
      <<32, 32, 98, 98>>,                               \* "  bb"
      <<32, 32, 97, 97, 97, 32, 98>>,                   \* "  aaa b"
      <<32, 32, 32, 32, 97, 97, 32, 98, 98>>,           \* "    aa bb"
      <<97, 32, 32, 98, 98, 32>>,                       \* "a  bb "
      <<9, 97>>,                                        \* "\ta"
      <<\HE2, \H80, \HA2, 32, 97, 97, 32, 98>> }        \* "\xe2\x80\xa2 aa b"

RECURSIVE Texts(_)
\* the texts of at most k lines
Texts(k) ==
    IF k = 0 THEN {}
    ELSE Texts(k - 1) \cup {<<l>> : l \in LineChoices}
                      \cup {Append(t, l) : t \in Texts(k - 1), l \in LineChoices}

Widths == {4, 6}

\* "", "  ", "> "
Indents == {<<>>, <<32, 32>>, <<62, 32>>}

\* "hello world"
Scenario1Text == <<104, 101, 108, 108, 111, 32, 119, 111, 114, 108, 100>>

\* "- item one\n  continued"
Scenario2Text ==
    <<45, 32, 105, 116, 101, 109, 32, 111, 110, 101, 10,
      32, 32, 99, 111, 110, 116, 105, 110, 117, 101, 100>>

WrapInputs ==
    {[text |-> Join(t, NL), width |-> w, initial_indent |-> ii, subsequent_indent |-> si] :
        t \in Texts(MaxLines), w \in Widths, ii \in Indents, si \in Indents}
    \cup {[text |-> Scenario1Text, width |-> 5,
           initial_indent |-> <<>>, subsequent_indent |-> <<>>],
          [text |-> Scenario2Text, width |-> 80,
           initial_indent |-> <<>>, subsequent_indent |-> <<>>]}

InitWrap ==
    /\ \E in \in WrapInputs :
          /\ text = in.text /\ width = in.width
          /\ initial_indent = in.initial_indent
          /\ subsequent_indent = in.subsequent_indent
    /\ lines = <<>> /\ li = 0 /\ ret = <<>> /\ indent = <<>> /\ wrap_last = FALSE
    /\ csab = 0 /\ cspc_indent = 0 /\ pc = "start"
    /\ call = NoCall
    /\ UcsIdle

\* lines 472-482: the text is split into lines and the loop state is set up
WrapStart ==
    /\ pc = "start"
    /\ lines' = split(ExpandTabs(rstrip(text, NL)), NL)
    /\ ret' = <<>>
    /\ indent' = initial_indent
    /\ wrap_last' = FALSE
    /\ csab' = 0
    /\ cspc_indent' = 0
    /\ li' = 0
    /\ pc' = "loop"
    /\ UNCHANGED <<text, width, initial_indent, subsequent_indent, call>>
    /\ UNCHANGED ucsVars

\* lines 505-509, from the state p left by lines 484-503
LineFits(p) ==
    /\ Fits(width, p.indent, p.line)
    /\ wrap_last' = FALSE
    /\ ret' = Append(p.ret, p.indent \o p.line)
    /\ indent' = subsequent_indent
    /\ csab' = p.csab
    /\ cspc_indent' = p.cspc_indent

\* one pass of the loop for a line that fits behind the indent (lines 484-509)
WrapLineFits ==
    /\ pc = "loop" /\ li < Len(lines)
    /\ LineFits(Prelude(lines[li + 1]))
    /\ li' = li + 1
    /\ UNCHANGED <<text, width, initial_indent, subsequent_indent, lines, pc, call>>
    /\ UNCHANGED ucsVars

\* lines 511 and 524, with r what the loop over the words left
LineWrapped(p, r) ==
    /\ wrap_last' = TRUE
    /\ ret' = r.ret
    /\ indent' = rstrip(r.line, SP) \o <<SP>>
    /\ csab' = p.csab
    /\ cspc_indent' = p.cspc_indent

\* lines 505-524, from the state p left by lines 484-503
LineWords(p) ==
    /\ ~Fits(width, p.indent, p.line)
    /\ LineWrapped(p, WordLoop(split(p.line, SP), 1, p.indent, p.ret,
                               Spcs(p.cspc_indent, p.csab), width, subsequent_indent))

\* one pass of the loop for a line that is wrapped word by word (lines 484-524)
WrapLineWords ==
    /\ pc = "loop" /\ li < Len(lines)
    /\ LineWords(Prelude(lines[li + 1]))
    /\ li' = li + 1
    /\ UNCHANGED <<text, width, initial_indent, subsequent_indent, lines, pc, call>>
    /\ UNCHANGED ucsVars

\* variant: the text still buffered when the input ends is dropped
FinalFlush_Dropped(r, wl, ind) == r

\* if wrap_last: ret.append(indent.rstrip(' '))
FinalFlush(r, wl, ind) == IF wl THEN Append(r, rstrip(ind, SP)) ELSE r

\* lines 525-530: the buffered line is flushed and the list returned
WrapEnd ==
    /\ pc = "loop" /\ li = Len(lines)
    /\ ret' = FinalFlush(ret, wrap_last, indent)
    /\ pc' = "done"
    /\ UNCHANGED <<text, width, initial_indent, subsequent_indent, lines, li,
                   indent, wrap_last, csab, cspc_indent, call>>
    /\ UNCHANGED ucsVars

NextWrap == WrapStart \/ WrapLineFits \/ WrapLineWords \/ WrapEnd

SpecWrap == InitWrap /\ [][NextWrap]_vars

(***************************************************************************)
(* The module as a whole: a decoding, a call or a wrap.                    *)
(***************************************************************************)
Init == InitUcs \/ InitWidth \/ InitWrap

Next == NextUcs \/ NextWidth \/ NextWrap

Spec == Init /\ [][Next]_vars

(***************************************************************************)
(* Properties of the decoder (checked under SpecUcs).                      *)
(***************************************************************************)
RECURSIVE SumN(_)
\* the sum of the consumed-byte-counts of the results rs
SumN(rs) == IF rs = <<>> THEN 0 ELSE rs[1][2] + SumN(Tail(rs))

\* results 1..k cover exactly the first cuts[k] bytes read from the input
Contiguous ==
    \A k \in 1..Len(out) : cuts[k] = SumN(Take(out, k)) /\ cuts[k] <= Len(msg)

LastIsInvalid == out # <<>> /\ out[Len(out)][1] = None

\* C5 as stated: when the decoder has finished, its results cover the whole
\* input: the consumed-byte-counts sum to the length of the input, and result
\* k covers exactly the bytes after those of results 1..k-1.
C5_ConsumesWholeInput ==
    /\ Contiguous
    /\ gen = "returned" => SumN(out) = Len(msg)

\* C5 amended: the results cover a prefix of the input, contiguously and left
\* to right; the counts sum to the length of the input unless the last result
\* is the invalid marker, after which the decoder stops.
C5_ConsumesPrefix ==
    /\ Contiguous
    /\ gen = "returned" => (SumN(out) = Len(msg) \/ LastIsInvalid)

\* C5 witness: a finished decoding that ended in an invalid unit of more
\* than one byte, with input left over
C5_Witness ==
    /\ gen = "returned" /\ LastIsInvalid
    /\ out[Len(out)][2] > 1 /\ SumN(out) < Len(msg)

\* C9: every result that is not the invalid marker is a minimally encoded
\* Unicode scalar value: 1 byte below 0x80, 2 bytes in 0x80..0x7FF, 3 bytes in
\* 0x800..0xFFFD outside the surrogates, 4 bytes in 0x10000..0x10FFFF.
C9_MinimalScalar ==
    \A k \in 1..Len(out) :
        LET c == out[k][1]
            n == out[k][2]
        IN  c # None =>
              /\ n \in 1..4
              /\ n = 1 => (0 <= c /\ c < \H80)
              /\ n = 2 => (\H80 <= c /\ c <= \H7FF)
              /\ n = 3 => (\H800 <= c /\ c <= \HFFFD /\ ~(\HD800 <= c /\ c <= \HDFFF))
              /\ n = 4 => (\H10000 <= c /\ c <= \H10FFFF)

\* C9 witness: a four-byte scalar value was yielded and the next unit, an
\* overlong, surrogate or out-of-range form read in full, was rejected
C9_Witness ==
    /\ Len(out) = 2 /\ out[1][2] = 4 /\ out[1][1] >= \H10000
    /\ out[2][1] = None /\ out[2][2] >= 2 /\ cuts[2] = Len(msg)

\* C10: an invalid marker is the last result and the decoder has returned
\* after it (so there is at most one); its count is in 1..4, equals the number
\* of bytes read for the unit and stays within the input; utf8_width of the
\* input equals utf8_width of the input cut after the invalid unit.
C10_InvalidIsLast ==
    \A k \in 1..Len(out) :
        out[k][1] = None =>
          /\ k = Len(out) /\ gen = "returned"
          /\ out[k][2] \in 1..4
          /\ out[k][2] = cuts[k] - (IF k = 1 THEN 0 ELSE cuts[k - 1])
          /\ cuts[k] <= Len(msg)
          /\ utf8_width(msg) = utf8_width(Take(msg, cuts[k]))

\* C10 witness: the decoder has returned after an invalid unit of three
\* bytes, with bytes of the input after it
C10_Witness ==
    /\ gen = "returned" /\ out # <<>>
    /\ out[Len(out)] = <<None, 3>> /\ cuts[Len(out)] < Len(msg)

(***************************************************************************)
(* Properties of the width functions (checked under SpecWidth).            *)
(***************************************************************************)
IsPrefix(s, t) == Len(s) <= Len(t) /\ s = Take(t, Len(s))

HasInvalid(m) == \E k \in 1..Len(_utf8_iter_ucs(m)) : _utf8_iter_ucs(m)[k][1] = None

Max(a, b) == IF a >= b THEN a ELSE b

IsChop == call.op = "utf8_width_chop" /\ call.chop # None

\* C1: utf8_width_chop(s, w) with w >= 0 returns (achieved_width, bytes) with
\* utf8_width(bytes) = achieved_width and achieved_width <= w.
C1_ChopWidth ==
    IsChop =>
      /\ utf8_width(call.ret[2]) = call.ret[1]
      /\ call.ret[1] <= call.chop

\* C1 witness: an input with a control character and an invalid sequence was
\* cut to a proper, non-empty prefix
C1_Witness ==
    /\ IsChop /\ HasInvalid(call.msg)
    /\ \E i \in 1..Len(call.msg) : call.msg[i] = \H01
    /\ call.ret[2] # <<>> /\ Len(call.ret[2]) < Len(call.msg)

\* the lengths of the leading runs of the decoder's results for m
RunLengths(m) ==
    LET rs == _utf8_iter_ucs(m)
    IN  {SumN(Take(rs, k)) : k \in 0..Len(rs)}

\* the same, for runs that hold no invalid marker
ValidRunLengths(m) ==
    LET rs == _utf8_iter_ucs(m)
    IN  {SumN(Take(rs, k)) : k \in {j \in 0..Len(rs) : \A i \in 1..j : rs[i][1] # None}}

\* C2 as stated: the bytes returned by utf8_width_chop(s, w) are a prefix of s
\* whose length is the sum of the counts of a leading run of the decoder's
\* results for s.
C2_CutAtRunOfResults ==
    IsChop =>
      /\ IsPrefix(call.ret[2], call.msg)
      /\ Len(call.ret[2]) \in RunLengths(call.msg)

\* C2 amended: the bytes returned are s itself (when utf8_width(s) <= w) or a
\* prefix of s whose length is the sum of the counts of a leading run of
\* results none of which is the invalid marker.
C2_CutAtBoundaryOrWhole ==
    IsChop =>
      \/ call.ret[2] = call.msg
      \/ /\ IsPrefix(call.ret[2], call.msg)
         /\ Len(call.ret[2]) \in ValidRunLengths(call.msg)

\* C2 witness: the input was cut, after at least one unit, right before a
\* multi-byte unit
C2_Witness ==
    /\ IsChop /\ call.ret[2] # <<>> /\ call.ret[2] # call.msg
    /\ At(call.msg, Len(call.ret[2])) >= \HC0

IsPlainFill ==
    /\ call.op = "utf8_width_fill" /\ call.chop = None
    /\ call.prefix = <<>> /\ call.suffix = <<>>

\* C3 as stated: with no chop limit and empty prefix and suffix
\* utf8_width(utf8_width_fill(s, w)) = max(w, utf8_width(s)), for both
\* justifications and every s.
C3_FillWidth ==
    IsPlainFill => utf8_width(call.ret) = Max(call.fill, utf8_width(call.msg))

\* C3 amended: the equation holds for right justification, and for left
\* justification when decoding s yields no invalid marker; with an invalid
\* marker and left justification the width lies between utf8_width(s) and
\* max(w, utf8_width(s)).
C3_FillWidthValid ==
    IsPlainFill =>
      LET got == utf8_width(call.ret)
          want == Max(call.fill, utf8_width(call.msg))
      IN  IF call.left /\ HasInvalid(call.msg)
          THEN utf8_width(call.msg) <= got /\ got <= want
          ELSE got = want

\* C3 witness: a left-justified fill of a valid string holding a wide and a
\* combining character that added padding
C3_Witness ==
    /\ IsPlainFill /\ call.left /\ ~HasInvalid(call.msg)
    /\ Len(call.msg) = 5 /\ utf8_width(call.msg) = 2
    /\ Len(call.ret) > Len(call.msg)

\* C6: _utf8_width_le(width, *fragments) returns whether the sum of
\* utf8_width over the fragments is <= width, and utf8_width(s) <= len(s) for
\* every fragment.
C6_WidthLeIsWidthSum ==
    call.op = "_utf8_width_le" =>
      /\ call.ret = (WidthSum(call.args, 1) <= call.width)
      /\ \A k \in 1..Len(call.args) : utf8_width(call.args[k]) <= Len(call.args[k])

\* C6 witness: the byte lengths do not fit the budget and the widths do
C6_Witness ==
    /\ call.op = "_utf8_width_le" /\ Len(call.args) = 3
    /\ LenSum(call.args, 1) > call.width
    /\ call.ret = TRUE

(***************************************************************************)
(* Properties of utf8_text_wrap (checked under SpecWrap).                  *)
(***************************************************************************)
NonEmpty(w) == w # <<>>

\* the words of s: its maximal runs of bytes other than the space
Words(s) == SelectSeq(split(s, SP), NonEmpty)

\* the indent output line k was started with
IndentOf(k) == IF k = 1 THEN initial_indent ELSE subsequent_indent

\* output line k beyond its indent
Content(k) ==
    IF IsPrefix(IndentOf(k), ret[k]) THEN Drop(ret[k], Len(IndentOf(k))) ELSE <<>>

\* output line k holds text: more than what its indent holds
HoldsText(k) == Words(ret[k]) # Words(IndentOf(k))

RECURSIVE WordsOfLines(_, _)
\* the words of the input lines ls from line i on
WordsOfLines(ls, i) ==
    IF i > Len(ls) THEN <<>> ELSE Words(ls[i]) \o WordsOfLines(ls, i + 1)

IsScenario2 ==
    /\ text = Scenario2Text /\ width = 80
    /\ initial_indent = <<>> /\ subsequent_indent = <<>>

\* "- item one continued"
Scenario2Joined ==
    <<45, 32, 105, 116, 101, 109, 32, 111, 110, 101, 32,
      99, 111, 110, 116, 105, 110, 117, 101, 100>>

\* C4 as stated: wrapping "- item one\n  continued" at width 80 returns the
\* single line "- item one continued".
C4_ContinuationAbsorbed ==
    (pc = "done" /\ IsScenario2) => ret = <<Scenario2Joined>>

\* every input line fits the width behind the indent of its output line
AllLinesFit ==
    \A i \in 1..Len(lines) : utf8_width(IndentOf(i) \o rstrip(lines[i], SP)) <= width

\* C4 amended: wrapping "- item one\n  continued" at width 80 returns the two
\* lines "- item one" and "  continued"; a text whose lines all fit the width
\* is returned line for line, each behind its indent; and whenever the
\* previous input line was not word-wrapped the buffer holds nothing but the
\* indent, so the next line cannot be absorbed into an earlier output line.
C4_FittingLinesKept ==
    /\ (pc = "done" /\ IsScenario2) =>
          ret = <<SubSeq(Scenario2Text, 1, 10), SubSeq(Scenario2Text, 12, 22)>>
    /\ (pc = "done" /\ AllLinesFit) =>
          /\ Len(ret) = Len(lines)
          /\ \A i \in 1..Len(lines) : ret[i] = IndentOf(i) \o rstrip(lines[i], SP)
    /\ (pc = "loop" /\ ~wrap_last) => indent \in {initial_indent, subsequent_indent}

\* C4 witness: the scenario has been wrapped
C4_Witness == pc = "done" /\ IsScenario2 /\ Len(ret) = 2

\* C7: every output line has display width <= width, except a line whose
\* content beyond its indent is a single word; no line holding two or more
\* words is wider than width, whatever the two indents are.
C7_LinesFitWidth ==
    \A k \in 1..Len(ret) :
        utf8_width(ret[k]) <= width \/ Len(Words(Content(k))) = 1

\* C8 as stated: for a text that holds a word, the first output line begins
\* with initial_indent and carries the first word of the text, and every later
\* output line that holds text begins with subsequent_indent.
C8_FirstLineCarriesFirstWord ==
    (pc = "done" /\ WordsOfLines(lines, 1) # <<>>) =>
      /\ Len(ret) >= 1
      /\ IsPrefix(initial_indent, ret[1])
      /\ Words(Content(1)) # <<>>
      /\ Head(Words(Content(1))) = Head(WordsOfLines(lines, 1))
      /\ \A k \in 2..Len(ret) : HoldsText(k) => IsPrefix(subsequent_indent, ret[k])

\* C8 amended: the first output line begins with initial_indent or is
\* initial_indent with its trailing spaces stripped; if it holds a word
\* beyond the indent, that word is the first word of the text (it holds none
\* when the text starts with a blank line or when the buffer is flushed
\* before the first word is added); every later output line that holds text
\* begins with subsequent_indent; the result has at least one line.
C8_IndentsApplied ==
    /\ pc = "done" => Len(ret) >= 1
    /\ Len(ret) >= 1 =>
          /\ IsPrefix(initial_indent, ret[1]) \/ ret[1] = rstrip(initial_indent, SP)
          /\ Words(Content(1)) # <<>> =>
                Head(Words(Content(1))) = Head(WordsOfLines(lines, 1))
          /\ \A k \in 2..Len(ret) : HoldsText(k) => IsPrefix(subsequent_indent, ret[k])

\* C8 witness: a wrap with two different indents returned three lines or
\* more, the first with the first word and the third with text
C8_Witness ==
    /\ pc = "done" /\ Len(ret) >= 3
    /\ initial_indent = <<62, 32>> /\ subsequent_indent = <<32, 32>>
    /\ Words(Content(1)) # <<>> /\ HoldsText(3)

(***************************************************************************)
(* C11: flushes of the word loop.                                          *)
(***************************************************************************)
\* every input line holds a word
AllLinesNonBlank == \A i \in 1..Len(lines) : Words(lines[i]) # <<>>

\* C11: the word loop flushes its buffer only when the buffer holds a word
\* beyond its indent, so when every input line is non-blank no output line
\* is empty or made of its indent alone
C11_NoIndentOnlyLine ==
    (pc \in {"loop", "done"} /\ AllLinesNonBlank) =>
        \A k \in 1..Len(ret) : HoldsText(k)

(***************************************************************************)
(* C12: the words of the text are kept, once each and in order.            *)
(***************************************************************************)
\* s holds only spaces
OnlySpaces(s) == \A k \in 1..Len(s) : s[k] = SP

\* the words not yet in ret: those of the carried buffer while wrap_last
Buffered == IF pc = "loop" /\ wrap_last THEN Words(indent) ELSE <<>>

\* C12: with indents of spaces only, the words read across the output lines
\* followed by the words still buffered are the words of the input lines
\* handled so far, in order; on return they are the words of the whole text
C12_WordsPreserved ==
    (pc \in {"loop", "done"} /\ OnlySpaces(initial_indent)
                             /\ OnlySpaces(subsequent_indent)) =>
        WordsOfLines(ret, 1) \o Buffered = WordsOfLines(Take(lines, li), 1)

\* C12 witness: a text of two lines with words was wrapped behind indents of
\* spaces into more lines than it had, the last of them flushed from the
\* buffer when the input ended
C12_Witness ==
    /\ pc = "done" /\ wrap_last /\ li = 2
    /\ initial_indent = <<SP, SP>> /\ subsequent_indent = <<>>
    /\ Len(ret) > Len(lines)
    /\ Len(WordsOfLines(lines, 1)) >= 3
====
